---- MODULE Spec2Model ----
(***************************************************************************)
(* The Bermuda Triangle puzzle solvers of jdsandifer/fun-programs.         *)
(*                                                                         *)
(*   identity variant : src/the-bermuda-triangle-game.ts                   *)
(*   quantity variant : src/unnamed/part_001                               *)
(*                                                                         *)
(* solvePuzzle is a recursive depth-first search.  It is modelled as a     *)
(* machine with an explicit call stack; arrays live in two heaps           *)
(* (arrangements, availables) and frames hold references to them, as the   *)
(* JavaScript values do, so that sharing between branches is observable.   *)
(* JavaScript arrays are 0-based: At(s, i) reads s[i].                     *)
(***************************************************************************)
EXTENDS Integers, Sequences, FiniteSets, TLC

VARIABLES
    run,             \* the top-level call being executed: [variant, rows], or NoRun
    phase,           \* "idle" | "running" | "done"
    stack,           \* call stack of solvePuzzle frames, innermost last
    arrangements,    \* heap: address -> Arrangement
    availables,      \* heap: address -> available list
    totalSolutions,  \* the global counter
    output,          \* arrangements passed to displayArrangement by a solution, in order
    argDots,         \* arguments and result of a direct call of
    argPiece,        \*   fitsThatMatchTheConstraints
    result

vars == <<run, phase, stack, arrangements, availables, totalSolutions, output,
          argDots, argPiece, result>>

----------------------------------------------------------------------------
(* Data tables *)

At(s, i) == s[i + 1]

r == "Red"
y == "Yellow"
g == "Green"
b == "Blue"
w == "White"
k == "Black"

Dot == {r, y, g, b, w, k}

leftSide == <<w, r, w, y>>

rightSide == <<b, r, g, k>>

bottomSide == <<g, g, w, g>>

pieces ==
    << <<r, k, g>>, <<r, w, y>>, <<y, w, g>>, <<b, k, w>>,
       <<y, g, b>>, <<b, w, w>>, <<r, k, g>>, <<r, g, k>>,
       <<g, k, k>>, <<y, g, k>>, <<r, g, w>>, <<y, w, g>>,
       <<b, k, w>>, <<r, g, y>>, <<b, b, w>>, <<y, k, b>> >>

typesAndQuantities ==
    << [type |-> <<r, g, y>>, quantity |-> 1],
       [type |-> <<r, g, w>>, quantity |-> 1],
       [type |-> <<r, g, k>>, quantity |-> 1],
       [type |-> <<r, w, y>>, quantity |-> 1],
       [type |-> <<r, k, g>>, quantity |-> 2],
       [type |-> <<y, g, b>>, quantity |-> 1],
       [type |-> <<y, g, k>>, quantity |-> 1],
       [type |-> <<y, w, g>>, quantity |-> 2],
       [type |-> <<y, k, b>>, quantity |-> 1],
       [type |-> <<g, k, k>>, quantity |-> 1],
       [type |-> <<b, b, w>>, quantity |-> 1],
       [type |-> <<b, w, w>>, quantity |-> 1],
       [type |-> <<b, k, w>>, quantity |-> 2] >>

\* A Placement is {piece, rotation} or false; Unplaced is the false placement.
Unplaced == [piece |-> -1, rotation |-> -1]

\* The false entry of an identity-variant available list.
Taken == -1

\* nextOpentSpot's undefined.
NoSpot == [row |-> -1, col |-> -1]

\* What getSideOfPiece yields when it throws.
NoDot == "Can't get piece side without a piece!"

NoRun == [variant |-> "none", rows |-> 0]

\* The piece table a variant's getSideOfPiece reads.
pieceOf(variant, pieceNumber) ==
    IF variant = "quantity"
    THEN At(typesAndQuantities, pieceNumber).type
    ELSE At(pieces, pieceNumber)

----------------------------------------------------------------------------
(* Pure helpers *)

\* fitWorks comparing dot i with piece[i]: the rotation is left out.
fitWorksUnrotated(dots, piece) ==
    [rotation \in 0..2 |->
        \A dotIndex \in 0..(Len(dots) - 1) :
            At(dots, dotIndex) = At(piece, dotIndex % 3)]

\* rotationsToTry.map(...): for each rotation, does the piece fit all dots?
fitWorks(dots, piece) ==
    [rotation \in 0..2 |->
        \A dotIndex \in 0..(Len(dots) - 1) :
            At(dots, dotIndex) = At(piece, (rotation + dotIndex) % 3)]

RECURSIVE reduceFitsPrepending(_, _, _)
\* The reduce with its concat turned round: [index].concat(fitNumbers).
reduceFitsPrepending(works, fitNumbers, index) ==
    IF index > 2 THEN fitNumbers
    ELSE reduceFitsPrepending(works,
                    IF works[index] THEN <<index>> \o fitNumbers ELSE fitNumbers,
                    index + 1)

RECURSIVE reduceFits(_, _, _)
\* fitWorks.reduce(...): indexes whose entry is true, concatenated from
\* index upward onto fitNumbers.
reduceFits(works, fitNumbers, index) ==
    IF index > 2 THEN fitNumbers
    ELSE reduceFits(works,
                    IF works[index] THEN fitNumbers \o <<index>> ELSE fitNumbers,
                    index + 1)

fitsThatMatchTheConstraints(dots, piece) ==
    reduceFits(fitWorks(dots, piece), <<>>, 0)

fitsThatMatchTwoDots(firstDotToMatch, secondDotToMatch, piece) ==
    fitsThatMatchTheConstraints(<<firstDotToMatch, secondDotToMatch>>, piece)

fitsThatMatchFirstSpot(piece) ==
    fitsThatMatchTwoDots(At(leftSide, 0), At(rightSide, 0), piece)

\* pieces.map(...).filter(([rotations]) => rotations.length > 0).map(...)
firstSpotFits ==
    LET HasFit(e) == Len(e.fits) > 0
    IN  SelectSeq([n \in 1..Len(pieces) |->
                      [piece |-> n - 1, fits |-> fitsThatMatchFirstSpot(pieces[n])]],
                  HasFit)

\* Row-major order on positions.
Before(p, q) == p.row < q.row \/ (p.row = q.row /\ p.col < q.col)

Positions(placements) ==
    UNION {{[row |-> row, col |-> col] :
                col \in 0..(Len(At(placements, row)) - 1)} :
           row \in 0..(Len(placements) - 1)}

Cell(placements, p) == At(At(placements, p.row), p.col)

\* nextOpentSpot scanning from the end: the last cell that holds false.
nextOpentSpotFromEnd(placements) ==
    LET open == {p \in Positions(placements) : Cell(placements, p) = Unplaced}
    IN  IF open = {} THEN NoSpot
        ELSE CHOOSE p \in open : \A q \in open : q = p \/ Before(q, p)

\* The first cell, rows first and then columns, that holds false.
nextOpentSpot(placements) ==
    LET open == {p \in Positions(placements) : Cell(placements, p) = Unplaced}
    IN  IF open = {} THEN NoSpot
        ELSE CHOOSE p \in open : \A q \in open : q = p \/ Before(p, q)

\* getSideOfPiece without "+ rotation".
getSideOfPieceUnrotated(variant, sideIndex, placement) ==
    IF placement = Unplaced THEN NoDot
    ELSE At(pieceOf(variant, placement.piece), sideIndex)

getSideOfPiece(variant, sideIndex, placement) ==
    IF placement = Unplaced THEN NoDot
    ELSE LET piece == pieceOf(variant, placement.piece)
             finalSide == (sideIndex + placement.rotation) % 3
         IN  At(piece, finalSide)

\* situationAtSpot that stops after the left side: neither the right or top
\* dot nor the bottom dot is required.
situationAtSpotLeftOnly(variant, placements, spot) ==
    IF spot.col = 0 THEN <<At(leftSide, spot.row)>>
    ELSE <<getSideOfPiece(variant, IF spot.col % 2 # 0 THEN 1 ELSE 2,
                          At(At(placements, spot.row), spot.col - 1))>>

\* situationAtSpot with "if (row === 3)": the bottom dot is required of
\* every cell of the last row.
situationAtSpotBottomRow(variant, placements, spot) ==
    LET row == spot.row
        col == spot.col
        colIsOdd == col % 2 # 0
        first ==
            IF col = 0 THEN <<At(leftSide, row)>>
            ELSE <<getSideOfPiece(variant, IF colIsOdd THEN 1 ELSE 2,
                                  At(At(placements, row), col - 1))>>
        second ==
            IF col = Len(At(placements, row)) - 1
            THEN first \o <<At(rightSide, row)>>
            ELSE IF colIsOdd
                 THEN first \o <<getSideOfPiece(variant, 2,
                                     At(At(placements, row - 1), col - 1))>>
                 ELSE first
    IN  IF row = 3 THEN second \o <<At(bottomSide, 3)>> ELSE second

situationAtSpot(variant, placements, spot) ==
    LET row == spot.row
        col == spot.col
        colIsOdd == col % 2 # 0
        first ==
            IF col = 0 THEN <<At(leftSide, row)>>
            ELSE LET sideOfNeighboringPiece == IF colIsOdd THEN 1 ELSE 2
                 IN  <<getSideOfPiece(variant, sideOfNeighboringPiece,
                                      At(At(placements, row), col - 1))>>
        second ==
            IF col = Len(At(placements, row)) - 1
            THEN first \o <<At(rightSide, row)>>
            ELSE IF colIsOdd
                 THEN first \o <<getSideOfPiece(variant, 2,
                                     At(At(placements, row - 1), col - 1))>>
                 ELSE first
    IN  IF row = 3 /\ col = 6 THEN second \o <<At(bottomSide, 3)>> ELSE second

\* The board literals of the runs: rows of lengths 1, 3, 5, 7, all false.
emptyRow(n) == [c \in 1..n |-> Unplaced]

emptyPuzzle(rows) == [row \in 1..rows |-> emptyRow(2 * row - 1)]

\* The indexes listed from the last piece to the first.
pieceIndexesDescending == [i \in 1..16 |-> 16 - i]

pieceIndexes == [i \in 1..16 |-> i - 1]

allPieceQuantities == typesAndQuantities

\* arrangement[row][col] = placement
WithPlacement(placements, spot, placement) ==
    [placements EXCEPT ![spot.row + 1][spot.col + 1] = placement]

----------------------------------------------------------------------------
(* The heaps *)

NewAddress(heap) ==
    CHOOSE a \in 0..Cardinality(DOMAIN heap) :
        a \notin DOMAIN heap /\ \A c \in 0..(a - 1) : c \in DOMAIN heap

\* cloneArrangement returning its argument (newArrangement = arrangement).
shareArrangement(heap, arrangement) ==
    [address |-> arrangement, heap |-> heap]

\* A new array of new rows holding the same placements.
cloneArrangement(heap, arrangement) ==
    LET newArrangement == NewAddress(heap)
    IN  [address |-> newArrangement,
         heap |-> (newArrangement :> heap[arrangement]) @@ heap]

\* Objects no frame refers to are garbage.
Collect(heap, refs) == [a \in (DOMAIN heap) \cap refs |-> heap[a]]

----------------------------------------------------------------------------
(* solvePuzzle *)

Frame(availableIndexes, placementsSoFar, recursionLevel) ==
    [availableIndexes |-> availableIndexes,
     placementsSoFar  |-> placementsSoFar,
     recursionLevel   |-> recursionLevel,
     pc        |-> "enter",
     spot      |-> NoSpot,
     situation |-> <<>>,
     index     |-> 0,     \* position of the outer forEach
     fit       |-> 0]     \* position of the inner forEach

Top == stack[Len(stack)]

Front(s) == SubSeq(s, 1, Len(s) - 1)

\* newAvailableIndexes that removes nothing.
keepAvailableIndexes(availableIndexes, i) == availableIndexes

\* availableIndexes.map((i2) => (i2 === i ? false : i2))
newAvailableIndexes(availableIndexes, i) ==
    [n \in 1..Len(availableIndexes) |->
        IF availableIndexes[n] = i THEN Taken ELSE availableIndexes[n]]

\* availablePieces.map(({type, quantity}, i2) =>
\*     ({type, quantity: availableIndex === i2 ? --quantity : quantity}))
newAvailablePieces(availablePieces, availableIndex) ==
    [n \in 1..Len(availablePieces) |->
        [type     |-> availablePieces[n].type,
         quantity |-> IF availableIndex = n - 1
                      THEN availablePieces[n].quantity - 1
                      ELSE availablePieces[n].quantity]]

\* The fits of the piece the outer forEach visits at index; none when the
\* body returns early.
fitsIdentity(availableIndexes, situation, index) ==
    LET i == At(availableIndexes, index)
    IN  IF i = Taken THEN <<>>
        ELSE fitsThatMatchTheConstraints(situation, At(pieces, i))

\* The piece inspected is typesAndQuantities[availableIndex], not the entry
\* of availablePieces.
fitsQuantity(availablePieces, situation, availableIndex) ==
    LET piece == At(typesAndQuantities, availableIndex)
    IN  IF piece.quantity <= 0 THEN <<>>
        ELSE fitsThatMatchTheConstraints(situation, piece.type)

fitsAt(variant, available, situation, index) ==
    IF variant = "quantity"
    THEN fitsQuantity(available, situation, index)
    ELSE fitsIdentity(available, situation, index)

\* The loops guarded by "if (totalSolutions >= 1) return": the search stops
\* at the first solution.
PendingUntilSolved(variant, frame) ==
    LET available == availables[frame.availableIndexes]
    IN  IF totalSolutions >= 1 THEN {}
        ELSE {c \in [index : frame.index..(Len(available) - 1), fit : 0..2] :
                /\ c.index > frame.index \/ c.fit >= frame.fit
                /\ c.fit < Len(fitsAt(variant, available, frame.situation, c.index))}

\* The iterations of the nested forEach that are still to come in a frame.
Pending(variant, frame) ==
    LET available == availables[frame.availableIndexes]
    IN  {c \in [index : frame.index..(Len(available) - 1), fit : 0..2] :
            /\ c.index > frame.index \/ c.fit >= frame.fit
            /\ c.fit < Len(fitsAt(variant, available, frame.situation, c.index))}

NextIteration(variant, frame) ==
    LET pending == Pending(variant, frame)
    IN  CHOOSE c \in pending :
            \A d \in pending :
                c.index < d.index \/ (c.index = d.index /\ c.fit <= d.fit)

RECURSIVE identitySolutions(_, _)
\* The arrangements a call of the identity solvePuzzle displays, read off
\* the recursion: the arrangement itself when it has no open spot, and else
\* those of the recursive calls of all iterations.
identitySolutions(availableIndexes, placementsSoFar) ==
    LET spot == nextOpentSpot(placementsSoFar)
        situation == situationAtSpot("identity", placementsSoFar, spot)
        iterations ==
            {c \in [index : 0..(Len(availableIndexes) - 1), fit : 0..2] :
                c.fit < Len(fitsIdentity(availableIndexes, situation, c.index))}
    IN  IF spot = NoSpot THEN {placementsSoFar}
        ELSE UNION {
            LET i == At(availableIndexes, c.index)
                f == At(fitsIdentity(availableIndexes, situation, c.index), c.fit)
            IN  identitySolutions(newAvailableIndexes(availableIndexes, i),
                    WithPlacement(placementsSoFar, spot,
                                  [piece |-> i, rotation |-> f])) :
            c \in iterations}

Refs(frames, field) == {frames[n][field] : n \in 1..Len(frames)}

\* The function returns: its frame is popped.
Pop ==
    /\ stack' = Front(stack)
    /\ phase' = IF Len(stack) = 1 THEN "done" ELSE "running"

\* A top-level call solvePuzzle(<all pieces>, <empty board of rows rows>),
\* preceded by totalSolutions = 0.
Call(variant, rows) ==
    /\ phase = "idle"
    /\ run' = [variant |-> variant, rows |-> rows]
    /\ phase' = "running"
    /\ arrangements' = (0 :> emptyPuzzle(rows))
    /\ availables' = (0 :> IF variant = "quantity" THEN allPieceQuantities
                           ELSE pieceIndexes)
    /\ stack' = <<Frame(0, 0, 0)>>
    /\ totalSolutions' = 0
    /\ output' = <<>>
    /\ UNCHANGED <<argDots, argPiece, result>>

\* No open spot: count and display the solution, return.
Solved ==
    /\ phase = "running"
    /\ Top.pc = "enter"
    /\ nextOpentSpot(arrangements[Top.placementsSoFar]) = NoSpot
    /\ totalSolutions' = totalSolutions + 1
    /\ output' = Append(output, arrangements[Top.placementsSoFar])
    /\ Pop
    /\ arrangements' = Collect(arrangements, Refs(Front(stack), "placementsSoFar"))
    /\ availables' = Collect(availables, Refs(Front(stack), "availableIndexes"))
    /\ UNCHANGED <<run, argDots, argPiece, result>>

\* An open spot: compute its situation and start the loops.  A throw of
\* getSideOfPiece is not caught anywhere and ends the program.
Situation ==
    /\ phase = "running"
    /\ Top.pc = "enter"
    /\ LET spot == nextOpentSpot(arrangements[Top.placementsSoFar])
           situation == situationAtSpot(run.variant,
                                        arrangements[Top.placementsSoFar], spot)
       IN  /\ spot # NoSpot
           /\ IF \E n \in 1..Len(situation) : situation[n] = NoDot
              THEN /\ phase' = "threw"
                   /\ stack' = <<>>
              ELSE /\ phase' = phase
                   /\ stack' = [stack EXCEPT ![Len(stack)] =
                                   [@ EXCEPT !.pc = "loop", !.spot = spot,
                                             !.situation = situation]]
    /\ UNCHANGED <<run, arrangements, availables, totalSolutions, output,
                   argDots, argPiece, result>>

\* One iteration of fits.forEach in the identity variant: recurse on a copy
\* of the arrangement with piece i at rotation f in the open spot.
PlaceIdentity ==
    /\ phase = "running"
    /\ run.variant = "identity"
    /\ Top.pc = "loop"
    /\ Pending(run.variant, Top) # {}
    /\ LET c == NextIteration(run.variant, Top)
           availableIndexes == availables[Top.availableIndexes]
           i == At(availableIndexes, c.index)
           f == At(fitsIdentity(availableIndexes, Top.situation, c.index), c.fit)
           newAvailable == NewAddress(availables)
           clone == cloneArrangement(arrangements, Top.placementsSoFar)
           newArrangement == clone.address
       IN  /\ availables' = (newAvailable :> newAvailableIndexes(availableIndexes, i))
                                @@ availables
           /\ arrangements' =
                  [clone.heap EXCEPT ![newArrangement] =
                      WithPlacement(@, Top.spot, [piece |-> i, rotation |-> f])]
           /\ stack' = Append([stack EXCEPT ![Len(stack)] =
                                  [@ EXCEPT !.index = c.index, !.fit = c.fit + 1]],
                              Frame(newAvailable, newArrangement,
                                    Top.recursionLevel + 1))
    /\ UNCHANGED <<run, phase, totalSolutions, output, argDots, argPiece, result>>

\* The same iteration in the quantity variant.
PlaceQuantity ==
    /\ phase = "running"
    /\ run.variant = "quantity"
    /\ Top.pc = "loop"
    /\ Pending(run.variant, Top) # {}
    /\ LET c == NextIteration(run.variant, Top)
           availablePieces == availables[Top.availableIndexes]
           availableIndex == c.index
           fit == At(fitsQuantity(availablePieces, Top.situation, c.index), c.fit)
           newAvailable == NewAddress(availables)
           clone == cloneArrangement(arrangements, Top.placementsSoFar)
           newArrangement == clone.address
       IN  /\ availables' = (newAvailable :>
                                newAvailablePieces(availablePieces, availableIndex))
                                @@ availables
           /\ arrangements' =
                  [clone.heap EXCEPT ![newArrangement] =
                      WithPlacement(@, Top.spot,
                                    [piece |-> availableIndex, rotation |-> fit])]
           /\ stack' = Append([stack EXCEPT ![Len(stack)] =
                                  [@ EXCEPT !.index = c.index, !.fit = c.fit + 1]],
                              Frame(newAvailable, newArrangement,
                                    Top.recursionLevel + 1))
    /\ UNCHANGED <<run, phase, totalSolutions, output, argDots, argPiece, result>>

\* Both forEach loops are over: return.
Return ==
    /\ phase = "running"
    /\ Top.pc = "loop"
    /\ Pending(run.variant, Top) = {}
    /\ Pop
    /\ arrangements' = Collect(arrangements, Refs(Front(stack), "placementsSoFar"))
    /\ availables' = Collect(availables, Refs(Front(stack), "availableIndexes"))
    /\ UNCHANGED <<run, totalSolutions, output, argDots, argPiece, result>>

\* The boards the files run (or keep commented out): the first 1, 2, 3 or
\* all 4 rows.  The quantity file runs the first two rows.
IdentityRows == 1..4

QuantityRows == 1..2

Init ==
    /\ run = NoRun
    /\ phase = "idle"
    /\ stack = <<>>
    /\ arrangements = <<>>
    /\ availables = <<>>
    /\ totalSolutions = 0
    /\ output = <<>>
    /\ argDots = <<>>
    /\ argPiece = <<>>
    /\ result = <<>>

Next ==
    \/ \E rows \in IdentityRows : Call("identity", rows)
    \/ \E rows \in QuantityRows : Call("quantity", rows)
    \/ Solved
    \/ Situation
    \/ PlaceIdentity
    \/ PlaceQuantity
    \/ Return

\* A direct call of fitsThatMatchTheConstraints on any piece and any
\* situation of 1, 2 or 3 dots.
NotCalled == <<-1>>

Pieces == [1..3 -> Dot]

Situations == UNION {[1..n -> Dot] : n \in 1..3}

InitFits ==
    /\ run = NoRun
    /\ phase = "idle"
    /\ stack = <<>>
    /\ arrangements = <<>>
    /\ availables = <<>>
    /\ totalSolutions = 0
    /\ output = <<>>
    /\ argDots \in Situations
    /\ argPiece \in Pieces
    /\ result = NotCalled

CallFits ==
    /\ result = NotCalled
    /\ result' = fitsThatMatchTheConstraints(argDots, argPiece)
    /\ UNCHANGED <<run, phase, stack, arrangements, availables, totalSolutions,
                   output, argDots, argPiece>>

NextFits == CallFits

SpecFits == InitFits /\ [][NextFits]_vars

\* solvePuzzle started with a piece list that does not have 16 pieces: the
\* first count entries of pieceIndexes, as a pieces table cut short gives.
\* The function looks at neither the length of its list nor the borders
\* before it searches.
ShapeRows == 1..2

ShapeCounts == {14, 15}

CallShort(rows, count) ==
    /\ phase = "idle"
    /\ run' = [variant |-> "identity", rows |-> rows, pieces |-> count]
    /\ phase' = "running"
    /\ arrangements' = (0 :> emptyPuzzle(rows))
    /\ availables' = (0 :> SubSeq(pieceIndexes, 1, count))
    /\ stack' = <<Frame(0, 0, 0)>>
    /\ totalSolutions' = 0
    /\ output' = <<>>
    /\ UNCHANGED <<argDots, argPiece, result>>

NextShape ==
    \/ \E rows \in ShapeRows, count \in ShapeCounts : CallShort(rows, count)
    \/ Solved
    \/ Situation
    \/ PlaceIdentity
    \/ Return

SpecShape == Init /\ [][NextShape]_vars

\* The early solver, src/unnamed/part_000.  An empty cell is undefined
\* (Unplaced here), used pieces are filtered out of the list, the situation
\* is the same for every spot, and a branch writes its placement into the
\* array it was handed: newArrangement = placementsSoFar is no copy.

\* A cell holding the array [undefined] instead of a placement.
NestedArray == [piece |-> -2, rotation |-> -2]

\* [[undefined],]
firstSquare == << <<Unplaced>> >>

\* [[undefined], [[undefined], [undefined], [undefined]],]
firstTwoRows == << <<Unplaced>>, <<NestedArray, NestedArray, NestedArray>> >>

situationAtSpotEarly(placements, spot) == <<At(leftSide, 0), At(rightSide, 0)>>

\* availableIndexes.filter(i2 => i2 !== i)
filterAvailableIndexes(availableIndexes, i) ==
    LET Other(i2) == i2 # i
    IN  SelectSeq(availableIndexes, Other)

\* The boards solvePuzzle is given beside the two literals of the script:
\* the first rows of emptyPuzzle, up to all four.
EarlyRows == 2..4

\* console.log('Solving the first square only...'); solvePuzzle(...)
CallFirstSquare ==
    /\ phase = "idle"
    /\ run' = [variant |-> "early", rows |-> 1, board |-> "first square"]
    /\ phase' = "running"
    /\ arrangements' = (0 :> firstSquare)
    /\ availables' = (0 :> pieceIndexes)
    /\ stack' = <<Frame(0, 0, 0)>>
    /\ UNCHANGED <<totalSolutions, output, argDots, argPiece, result>>

\* console.log('Solving the first two rows only...'); solvePuzzle(...):
\* the statement after the first call; totalSolutions is not reset.
CallFirstTwoRows ==
    /\ phase = "done"
    /\ run = [variant |-> "early", rows |-> 1, board |-> "first square"]
    /\ run' = [variant |-> "early", rows |-> 2, board |-> "first two rows"]
    /\ phase' = "running"
    /\ arrangements' = (0 :> firstTwoRows)
    /\ availables' = (0 :> pieceIndexes)
    /\ stack' = <<Frame(0, 0, 0)>>
    /\ UNCHANGED <<totalSolutions, output, argDots, argPiece, result>>

\* solvePuzzle(pieceIndexes, <the first rows of emptyPuzzle>)
CallEmptyPuzzle(rows) ==
    /\ phase = "idle"
    /\ run' = [variant |-> "early", rows |-> rows, board |-> "emptyPuzzle"]
    /\ phase' = "running"
    /\ arrangements' = (0 :> emptyPuzzle(rows))
    /\ availables' = (0 :> pieceIndexes)
    /\ stack' = <<Frame(0, 0, 0)>>
    /\ UNCHANGED <<totalSolutions, output, argDots, argPiece, result>>

SituationEarly ==
    /\ phase = "running"
    /\ run.variant = "early"
    /\ Top.pc = "enter"
    /\ LET spot == nextOpentSpot(arrangements[Top.placementsSoFar])
           situation == situationAtSpotEarly(arrangements[Top.placementsSoFar], spot)
       IN  /\ spot # NoSpot
           /\ stack' = [stack EXCEPT ![Len(stack)] =
                           [@ EXCEPT !.pc = "loop", !.spot = spot,
                                     !.situation = situation]]
    /\ UNCHANGED <<run, phase, arrangements, availables, totalSolutions, output,
                   argDots, argPiece, result>>

\* One iteration of fits.forEach: the placement is written into the
\* caller's own array, and the recursive call is handed that same array.
PlaceEarly ==
    /\ phase = "running"
    /\ run.variant = "early"
    /\ Top.pc = "loop"
    /\ Pending(run.variant, Top) # {}
    /\ LET c == NextIteration(run.variant, Top)
           availableIndexes == availables[Top.availableIndexes]
           i == At(availableIndexes, c.index)
           f == At(fitsThatMatchTheConstraints(Top.situation, At(pieces, i)), c.fit)
           newAvailablePiecesAddress == NewAddress(availables)
           newArrangement == Top.placementsSoFar
       IN  /\ availables' = (newAvailablePiecesAddress :>
                                filterAvailableIndexes(availableIndexes, i))
                            @@ availables
           /\ arrangements' =
                 [arrangements EXCEPT ![newArrangement] =
                     WithPlacement(@, Top.spot, [piece |-> i, rotation |-> f])]
           /\ stack' = Append([stack EXCEPT ![Len(stack)] =
                                  [@ EXCEPT !.index = c.index, !.fit = c.fit + 1]],
                              Frame(newAvailablePiecesAddress, newArrangement,
                                    Top.recursionLevel + 1))
    /\ UNCHANGED <<run, phase, totalSolutions, output, argDots, argPiece, result>>

NextEarly ==
    \/ CallFirstSquare
    \/ CallFirstTwoRows
    \/ \E rows \in EarlyRows : CallEmptyPuzzle(rows)
    \/ Solved
    \/ SituationEarly
    \/ PlaceEarly
    \/ Return

SpecEarly == Init /\ [][NextEarly]_vars

\* The first solver, second file of src/unnamed/part_002: one fit or
\* undefined, for two dots.
NoFit == -1

RECURSIVE forEachLeftDotIndexFirstDotOnly(_, _, _, _, _)
\* The loop testing the first dot alone.
forEachLeftDotIndexFirstDotOnly(firstDot, secondDot, piece, fits, leftDotIndex) ==
    IF leftDotIndex > 2 THEN fits
    ELSE forEachLeftDotIndexFirstDotOnly(firstDot, secondDot, piece,
            IF firstDot = At(piece, leftDotIndex) THEN leftDotIndex ELSE fits,
            leftDotIndex + 1)

RECURSIVE forEachLeftDotIndex(_, _, _, _, _)
\* [0, 1, 2].forEach(...) from leftDotIndex on: every match overwrites fits.
forEachLeftDotIndex(firstDot, secondDot, piece, fits, leftDotIndex) ==
    IF leftDotIndex > 2 THEN fits
    ELSE LET rightDotIndex == (leftDotIndex + 1) % 3
         IN  forEachLeftDotIndex(firstDot, secondDot, piece,
                 IF /\ firstDot = At(piece, leftDotIndex)
                    /\ secondDot = At(piece, rightDotIndex)
                 THEN leftDotIndex ELSE fits,
                 leftDotIndex + 1)

fitWithTwoSidesOrUndefined(firstDot, secondDot, piece) ==
    forEachLeftDotIndex(firstDot, secondDot, piece, NoFit, 0)

\* A call of both two-dot functions on any two dots and any piece of the
\* table; result is <<the one fit or NoFit, the list of fits>>.
TablePieces == {pieces[n] : n \in 1..Len(pieces)}

InitTwoDots ==
    /\ run = NoRun
    /\ phase = "idle"
    /\ stack = <<>>
    /\ arrangements = <<>>
    /\ availables = <<>>
    /\ totalSolutions = 0
    /\ output = <<>>
    /\ argDots \in [1..2 -> Dot]
    /\ argPiece \in TablePieces
    /\ result = NotCalled

CallTwoDots ==
    /\ result = NotCalled
    /\ result' = <<fitWithTwoSidesOrUndefined(argDots[1], argDots[2], argPiece),
                   fitsThatMatchTwoDots(argDots[1], argDots[2], argPiece)>>
    /\ UNCHANGED <<run, phase, stack, arrangements, availables, totalSolutions,
                   output, argDots, argPiece>>

NextTwoDots == CallTwoDots

SpecTwoDots == InitTwoDots /\ [][NextTwoDots]_vars

Spec == Init /\ [][Next]_vars

----------------------------------------------------------------------------
(* The rules of the puzzle, stated on arrangements independently of the    *)
(* search: side s of a placement reads the piece at (s + rotation) mod 3.  *)

Placed(a, row, col) == At(At(a, row), col) # Unplaced

Side(variant, a, row, col, s) ==
    LET placement == At(At(a, row), col)
    IN  pieceOf(variant, placement.piece)[((s + placement.rotation) % 3) + 1]

LastCol(a, row) == Len(At(a, row)) - 1

\* Every placed cell on the left, right or bottom border of the 4-row board
\* shows the border's color there.
BorderMatches(variant, a) ==
    /\ \A row \in 0..(Len(a) - 1) :
        /\ Placed(a, row, 0) =>
              Side(variant, a, row, 0, 0) = At(leftSide, row)
        /\ Placed(a, row, LastCol(a, row)) =>
              Side(variant, a, row, LastCol(a, row), 1) = At(rightSide, row)
    /\ Len(a) = 4 =>
          \A n \in 0..3 :
              Placed(a, 3, 2 * n) =>
                  Side(variant, a, 3, 2 * n, 2) = At(bottomSide, n)

\* Any two placed pieces that share an edge show the same color on it.
EdgesMatch(variant, a) ==
    \A row \in 0..(Len(a) - 1) :
        \A col \in 1..LastCol(a, row) :
            /\ (Placed(a, row, col) /\ Placed(a, row, col - 1)) =>
                  Side(variant, a, row, col - 1, IF col % 2 = 1 THEN 1 ELSE 2)
                      = Side(variant, a, row, col, 0)
            /\ (col % 2 = 1 /\ row >= 1 /\ Placed(a, row, col)
                    /\ Placed(a, row - 1, col - 1)) =>
                  Side(variant, a, row - 1, col - 1, 2)
                      = Side(variant, a, row, col, 1)

\* How many cells of an arrangement hold the piece.
Uses(a, piece) ==
    Cardinality({p \in Positions(a) : Cell(a, p).piece = piece})

Complete(a) == \A p \in Positions(a) : Cell(a, p) # Unplaced

\* The arrangement of the innermost call.  Every arrangement passed to a
\* call, a solution included, is this one when that call starts.
Reached == IF stack = <<>> THEN {} ELSE {arrangements[Top.placementsSoFar]}

FullIdentityRun == run = [variant |-> "identity", rows |-> 4]

(* C1: on the full 4-row board started empty with all 16 pieces, every     *)
(* arrangement the identity solvePuzzle emits as a solution matches the    *)
(* border: side 0 of cell (row,0) = leftSide[row], side 1 of the last cell *)
(* of each row = rightSide[row], side 2 of cell (3,2k) = bottomSide[k].    *)
C1_SolutionsMatchBorder ==
    FullIdentityRun =>
        \A n \in 1..Len(output) :
            Complete(output[n]) /\ BorderMatches("identity", output[n])

C1_Witness == FullIdentityRun /\ Len(output) >= 1

(* C2: in every arrangement reachable during the identity solvePuzzle,     *)
(* partial ones included, two placed pieces that share an edge show the    *)
(* same color on it.                                                       *)
C2_SharedEdgesMatch ==
    run.variant = "identity" => \A a \in Reached : EdgesMatch("identity", a)

C2_Witness ==
    /\ run.variant = "identity"
    /\ \E a \in Reached :
          Len(a) >= 2 /\ ~Complete(a) /\ Placed(a, 1, 1) /\ Placed(a, 1, 2)

(* C3: in the identity variant no piece index appears in two cells of any  *)
(* arrangement reached from an empty board with the full pool, neither in  *)
(* a partial arrangement passed to a recursive call nor in a solution.     *)
C3_NoPieceTwice ==
    run.variant = "identity" =>
        \A a \in Reached : \A p, q \in Positions(a) :
            (Cell(a, p) # Unplaced /\ Cell(a, p).piece = Cell(a, q).piece)
                => p = q

C3_Witness ==
    /\ run.variant = "identity"
    /\ \E a \in Reached : \E p, q \in Positions(a) :
          p # q /\ Cell(a, p) # Unplaced /\ Cell(a, q) # Unplaced

(* C4: a call of the identity solvePuzzle never changes the arrangement or *)
(* the available list it was given: in every step the arrays of every call *)
(* that stays on the stack keep their contents, and the open cell of every *)
(* call that is in its loops is still empty in its arrangement.            *)
C4_CallerStateUntouched ==
    [][run.variant = "identity" =>
        /\ \A n \in 1..Len(stack) :
              (n <= Len(stack')) =>
                  /\ arrangements'[stack[n].placementsSoFar]
                        = arrangements[stack[n].placementsSoFar]
                  /\ availables'[stack[n].availableIndexes]
                        = availables[stack[n].availableIndexes]
        /\ \A n \in 1..Len(stack') :
              stack'[n].pc = "loop" =>
                  Cell(arrangements'[stack'[n].placementsSoFar], stack'[n].spot)
                      = Unplaced]_vars

\* A recursive call has returned to a caller that has more iterations to run.
C4_Witness ==
    /\ run.variant = "identity"
    /\ phase = "running"
    /\ Top.pc = "loop"
    /\ Top.fit > 0
    /\ Pending("identity", Top) # {}

\* The cells of a board in row-major order.
CellOrder(rows) ==
    [n \in 1..(rows * rows) |->
        CHOOSE p \in Positions(emptyPuzzle(rows)) :
            Cardinality({q \in Positions(emptyPuzzle(rows)) : Before(q, p)}) = n - 1]

\* A complete arrangement is a solution when no piece index is used twice
\* and every piece-to-piece and piece-to-border edge matches.
IsSolution(a) ==
    /\ Complete(a)
    /\ \A p, q \in Positions(a) : Cell(a, p).piece = Cell(a, q).piece => p = q
    /\ EdgesMatch("identity", a)
    /\ BorderMatches("identity", a)

\* The placement at spot breaks no rule against the cells placed so far.
LegalAt(a, spot) ==
    /\ \A q \in Positions(a) : Cell(a, q).piece = Cell(a, spot).piece => q = spot
    /\ EdgesMatch("identity", a)
    /\ BorderMatches("identity", a)

RECURSIVE LegalPrefixes(_, _)
\* The arrangements of the first n cells of the board that break no rule.
\* A solution breaks no rule on any of its prefixes, so the solutions are
\* the legal prefixes of all the cells.
LegalPrefixes(rows, n) ==
    IF n = 0 THEN {emptyPuzzle(rows)}
    ELSE LET spot == CellOrder(rows)[n]
         IN  {x \in {WithPlacement(a, spot, [piece |-> i, rotation |-> f]) :
                        a \in LegalPrefixes(rows, n - 1), i \in 0..15, f \in 0..2} :
                 LegalAt(x, spot)}

AllSolutions(rows) == LegalPrefixes(rows, rows * rows)

Emitted == {output[n] : n \in 1..Len(output)}

(* C5: the identity solvePuzzle enumerates all solutions: when a search of *)
(* a board started empty with the full pool is over, every complete        *)
(* arrangement that uses each piece index at most once and satisfies all   *)
(* piece-to-piece and border constraints has been emitted.                 *)
C5_EverySolutionEmitted ==
    (phase = "done" /\ run.variant = "identity") =>
        /\ \A a \in AllSolutions(run.rows) : IsSolution(a) /\ a \in Emitted
        /\ run.rows = 1 =>
              \A i \in 0..15, f \in 0..2 :
                  LET a == << <<[piece |-> i, rotation |-> f]>> >>
                  IN  IsSolution(a) => a \in Emitted

C5_Witness ==
    /\ phase = "done"
    /\ run.variant = "identity"
    /\ run.rows >= 2
    /\ Cardinality(AllSolutions(run.rows)) >= 2
    /\ Len(output) >= 2

(* C6: for every piece and every situation of 1, 2 or 3 dots,              *)
(* fitsThatMatchTheConstraints returns exactly the rotations r in {0,1,2}  *)
(* with piece[(r+i) mod 3] = dots[i] for every index i of the situation,   *)
(* each once and in ascending order; it is empty exactly when no rotation  *)
(* fits.                                                                   *)
C6_FitsAreTheMatchingRotations ==
    result # NotCalled =>
        LET matching ==
                {rot \in 0..2 :
                    \A i \in 1..Len(argDots) :
                        argPiece[((rot + i - 1) % 3) + 1] = argDots[i]}
        IN  /\ {result[n] : n \in 1..Len(result)} = matching
            /\ \A m, n \in 1..Len(result) : m < n => result[m] < result[n]
            /\ (result = <<>>) <=> (matching = {})

\* A piece with a repeated color fits a one-dot situation in two rotations.
C6_Witness == result # NotCalled /\ Len(result) = 2 /\ Len(argDots) = 1

\* Pieces that look the same: indexes 0/6, 2/11 and 3/12.
Twin(i) == IF i = 6 THEN 0 ELSE IF i = 11 THEN 2 ELSE IF i = 12 THEN 3 ELSE i

Untwinned(a) ==
    [row \in 1..Len(a) |->
        [col \in 1..Len(a[row]) |->
            [piece |-> Twin(a[row][col].piece), rotation |-> a[row][col].rotation]]]

(* C9: solving the whole 16-cell board from empty with the 16 indexed      *)
(* pieces emits exactly 8 solutions, and all 8 are one arrangement up to   *)
(* exchanging the identical pieces 0/6, 2/11 and 3/12.                     *)
C9_EightSolutionsOneUnique ==
    (phase = "done" /\ FullIdentityRun) =>
        /\ totalSolutions = 8
        /\ Len(output) = 8
        /\ Cardinality(Emitted) = 8
        /\ Cardinality({Untwinned(a) : a \in Emitted}) = 1
        /\ \A i \in 0..15 : At(pieces, Twin(i)) = At(pieces, i)

C9_Witness == phase = "done" /\ FullIdentityRun /\ totalSolutions > 0

SingleCell(piece, rotation) == << <<[piece |-> piece, rotation |-> rotation]>> >>

\* The single-cell arrangements firstSpotFits lists.
FirstSpotPlacements ==
    UNION {{SingleCell(firstSpotFits[n].piece, firstSpotFits[n].fits[j]) :
                j \in 1..Len(firstSpotFits[n].fits)} :
           n \in 1..Len(firstSpotFits)}

(* C10: solving the single-cell board [[empty]] with the full 16-piece     *)
(* pool emits exactly the pieces and rotations whose two-dot match against *)
(* [White, Blue] succeeds: 4 solutions, pieces 3, 5, 12 and 14, each at    *)
(* rotation 2.                                                             *)
C10_FirstCellSolutions ==
    (phase = "done" /\ run = [variant |-> "identity", rows |-> 1]) =>
        /\ totalSolutions = 4
        /\ Len(output) = 4
        /\ Emitted = {SingleCell(piece, 2) : piece \in {3, 5, 12, 14}}
        /\ Emitted = FirstSpotPlacements

C10_Witness ==
    phase = "done" /\ run = [variant |-> "identity", rows |-> 1] /\ Len(output) > 0

\* The recursion and the stack machine display the same arrangements.
IdentitySolutionsAgree ==
    (phase = "done" /\ run.variant = "identity") =>
        Emitted = identitySolutions(pieceIndexes, emptyPuzzle(run.rows))

(* C7: in the quantity variant no arrangement reached by solvePuzzle        *)
(* contains a piece type in more cells than that type's quantity in        *)
(* typesAndQuantities: a type whose copies are all placed in the current   *)
(* branch is skipped.                                                      *)
C7_TypeWithinQuantity ==
    run.variant = "quantity" =>
        \A a \in Reached : \A type \in 0..12 :
            Uses(a, type) <= At(typesAndQuantities, type).quantity

\* The type of an indexed piece: its place in typesAndQuantities.
TypeOf(i) ==
    CHOOSE type \in 0..12 : At(typesAndQuantities, type).type = At(pieces, i)

Typed(a) ==
    [row \in 1..Len(a) |->
        [col \in 1..Len(a[row]) |->
            [piece |-> TypeOf(a[row][col].piece),
             rotation |-> a[row][col].rotation]]]

(* C8: the arrangements emitted by the quantity variant on a board are     *)
(* exactly the solutions of the identity variant on the same board with    *)
(* every piece index replaced by its type, each visually distinct          *)
(* arrangement emitted exactly once.                                       *)
C8_QuantityEmitsTypedIdentitySolutions ==
    (phase = "done" /\ run.variant = "quantity") =>
        /\ Emitted = {Typed(a) :
                        a \in identitySolutions(pieceIndexes, emptyPuzzle(run.rows))}
        /\ Cardinality(Emitted) = Len(output)

TwoRowIdentityRun == run = [variant |-> "identity", rows |-> 2]

ThreeRowIdentityRun == run = [variant |-> "identity", rows |-> 3]

C12_ThreeRowsEmit773 ==
    /\ ThreeRowIdentityRun => totalSolutions <= 773 /\ Len(output) = totalSolutions
    /\ (phase = "done" /\ ThreeRowIdentityRun) =>
          /\ totalSolutions = 773
          /\ Cardinality(Emitted) = 773
          /\ \A a \in Emitted : Complete(a)

\* The three-row search is emitting: complete arrangements of the 9 cells
\* have been counted.
C12_Witness ==
    /\ ThreeRowIdentityRun
    /\ phase = "running"
    /\ totalSolutions >= 2
    /\ \A n \in 1..Len(output) : Len(output[n]) = 3 /\ Complete(output[n])

FilledCells(a) == Cardinality({p \in Positions(a) : Cell(a, p) # Unplaced})

AvailableCount(availableIndexes) ==
    Cardinality({n \in 1..Len(availableIndexes) : availableIndexes[n] # Taken})

\* Each call on the stack has one more filled cell and one fewer available
\* piece than its caller, and the calls nest no deeper than the cells.
OneMoreCellOneFewerPiece ==
    /\ \A n \in 1..Len(stack) :
          /\ stack[n].recursionLevel = n - 1
          /\ FilledCells(arrangements[stack[n].placementsSoFar]) = n - 1
          /\ AvailableCount(availables[stack[n].availableIndexes]) = 16 - (n - 1)
    /\ \A n \in 1..(Len(stack) - 1) :
          /\ FilledCells(arrangements[stack[n + 1].placementsSoFar])
                = FilledCells(arrangements[stack[n].placementsSoFar]) + 1
          /\ AvailableCount(availables[stack[n + 1].availableIndexes])
                = AvailableCount(availables[stack[n].availableIndexes]) - 1
    /\ Len(stack) <= run.rows * run.rows + 1
    /\ \A n \in 1..Len(stack) : stack[n].recursionLevel <= run.rows * run.rows

\* How far a call has come: 0 before its loops, then the place of its loop
\* cursor; a call that has returned, or was never made, is at Returned.
Returned == 4 * Len(pieceIndexes) + 1

Step(frame) ==
    IF frame.pc = "enter" THEN 0 ELSE 1 + 4 * frame.index + frame.fit

\* One call per cell of the full board, and the call that finds it solved.
MaxDepth == Len(pieceIndexes) + 1

Progress(frames) ==
    [n \in 1..MaxDepth |-> IF n <= Len(frames) THEN Step(frames[n]) ELSE Returned]

\* Lexicographic order, outermost call first.
Advances(before, after) ==
    \E n \in 1..MaxDepth :
        /\ before[n] < after[n]
        /\ \A m \in 1..(n - 1) : before[m] = after[m]

(* C13: every identity solvePuzzle search terminates: each recursive call  *)
(* receives exactly one more filled cell and exactly one fewer available   *)
(* piece than its caller, so the recursion depth never exceeds the number  *)
(* of cells of the board (16 for the full board); and every step of the    *)
(* search advances the loop cursors of the calls on the stack in           *)
(* lexicographic order, a bounded measure, so no search runs forever.      *)
C13_SearchTerminates ==
    [][run'.variant = "identity" =>
          /\ phase' = "running" => OneMoreCellOneFewerPiece'
          /\ phase = "running" =>
                /\ Advances(Progress(stack), Progress(stack'))
                /\ \A n \in 1..Len(stack) : Step(stack[n]) < Returned]_vars

\* The deepest call of the full board: all 16 cells filled, no piece left.
C13_Witness ==
    /\ FullIdentityRun
    /\ Len(stack) = 17
    /\ Top.recursionLevel = 16
    /\ AvailableCount(availables[Top.availableIndexes]) = 0

ShortListRun == run.variant = "identity" /\ "pieces" \in DOMAIN run /\ run.pieces # 16

NothingPlaced ==
    \A address \in DOMAIN arrangements : FilledCells(arrangements[address]) = 0

(* C14: input shape errors are caught before the search: when the piece   *)
(* list does not have 16 pieces (or a border sequence does not have        *)
(* length 4) the solver reports a configuration error at search start and  *)
(* places no piece; the error is never discovered mid-search.              *)
C14_ShapeErrorReported ==
    ShortListRun => phase = "configuration error" /\ NothingPlaced

\* The cells situationAtSpot reads the sides of: the left cell unless the
\* spot starts its row, and for an odd column short of the row's end the
\* cell (row - 1, col - 1).
NeighborsRead(a, spot) ==
    (IF spot.col # 0
     THEN {[row |-> spot.row, col |-> spot.col - 1]} ELSE {})
    \cup
    (IF spot.col % 2 # 0 /\ spot.col # LastCol(a, spot.row)
     THEN {[row |-> spot.row - 1, col |-> spot.col - 1]} ELSE {})

(* C15: in an identity search started from an all-empty board, every       *)
(* neighbor whose side situationAtSpot reads (the left cell, and for odd   *)
(* columns the cell (row-1, col-1)) already holds a placement, so          *)
(* getSideOfPiece never raises "Can't get piece side without a piece!".    *)
C15_NeighborsArePlaced ==
    run.variant = "identity" =>
        /\ phase # "threw"
        /\ (phase = "running" /\ Top.pc = "enter") =>
              LET a == arrangements[Top.placementsSoFar]
                  spot == nextOpentSpot(a)
              IN  spot # NoSpot =>
                    /\ \A p \in NeighborsRead(a, spot) :
                          p \in Positions(a) /\ Cell(a, p) # Unplaced
                    /\ \A n \in DOMAIN situationAtSpot("identity", a, spot) :
                          situationAtSpot("identity", a, spot)[n] \in Dot
        /\ (phase = "running" /\ Top.pc = "loop") =>
              \A n \in DOMAIN Top.situation : Top.situation[n] # NoDot

\* A spot in an odd column short of its row's end: both neighbors are read.
C15_Witness ==
    /\ FullIdentityRun
    /\ phase = "running"
    /\ Top.pc = "enter"
    /\ LET a == arrangements[Top.placementsSoFar]
       IN  /\ nextOpentSpot(a) = [row |-> 3, col |-> 5]
           /\ Cardinality(NeighborsRead(a, nextOpentSpot(a))) = 2

LastCell == [row |-> 3, col |-> 6]

(* C16: for every cell of the full 4-row board, situationAtSpot returns    *)
(* between 1 and 3 colors, and exactly one cell, (3,6), receives 3 colors: *)
(* its left neighbor's side, rightSide[3] and bottomSide[3].               *)
C16_OneToThreeColors ==
    (FullIdentityRun /\ phase = "running") =>
        \A a \in Reached : \A spot \in Positions(a) :
            (\A p \in NeighborsRead(a, spot) : Cell(a, p) # Unplaced) =>
                LET situation == situationAtSpot("identity", a, spot)
                IN  /\ Len(situation) \in 1..3
                    /\ Len(situation) = 3 <=> spot = LastCell
                    /\ spot = LastCell =>
                          situation = <<getSideOfPiece("identity", 2, At(At(a, 3), 5)),
                                        At(rightSide, 3), At(bottomSide, 3)>>
                    /\ (Top.pc = "loop" /\ spot = Top.spot) => Top.situation = situation

\* A solved full board: the situation of each of the 16 cells is defined,
\* and the search has been through the last cell.
C16_Witness ==
    /\ FullIdentityRun
    /\ phase = "running"
    /\ Positions(arrangements[Top.placementsSoFar]) = Positions(emptyPuzzle(4))
    /\ Complete(arrangements[Top.placementsSoFar])
    /\ Len(stack) >= 2
    /\ stack[Len(stack) - 1].spot = LastCell
    /\ Len(stack[Len(stack) - 1].situation) = 3

\* (piece index, rotation) pairs in their order.
PairBefore(p, q) ==
    p.piece < q.piece \/ (p.piece = q.piece /\ p.rotation < q.rotation)

\* Lexicographic order of two arrangements of one board, cells in row-major
\* order.
Precedes(a1, a2) ==
    \E spot \in Positions(a1) :
        /\ PairBefore(Cell(a1, spot), Cell(a2, spot))
        /\ \A q \in Positions(a1) : Before(q, spot) => Cell(a1, q) = Cell(a2, q)

(* C17: within one run of the identity solvePuzzle, solutions are emitted  *)
(* in strictly increasing lexicographic order of their (piece index,       *)
(* rotation) pairs read in row-major cell order; hence the sequence        *)
(* emitted is fixed by the inputs and no arrangement is emitted twice.     *)
C17_EmittedInLexicographicOrder ==
    run.variant = "identity" =>
        /\ Len(output) >= 2 =>
              Precedes(output[Len(output) - 1], output[Len(output)])
        /\ (phase = "done" /\ Len(output) <= 30) =>
              \A m, n \in 1..Len(output) : m < n => Precedes(output[m], output[n])
        /\ phase = "done" => Cardinality(Emitted) = Len(output)

\* Two solutions in a row that differ from the first row on: the later one
\* is reached after backtracking to the root call.
C17_Witness ==
    /\ run.variant = "identity"
    /\ run.rows >= 2
    /\ Len(output) >= 2
    /\ Cell(output[Len(output) - 1], [row |-> 0, col |-> 0])
          # Cell(output[Len(output)], [row |-> 0, col |-> 0])

IsPlacement(cell) == cell.piece \in 0..15 /\ cell.rotation \in 0..2

NoPieceInTwoCells(a) ==
    \A p, q \in Positions(a) :
        (IsPlacement(Cell(a, p)) /\ Cell(a, p).piece = Cell(a, q).piece) => p = q

(* C18: in the early solver (part_000), solvePuzzle started on a board     *)
(* with at least two open cells keeps its branches independent: no         *)
(* arrangement passed to a recursive call or emitted holds the same piece  *)
(* index in two cells, and a cell filled in one branch is empty again when *)
(* the next sibling branch starts: when a call is about to run an          *)
(* iteration of its loops, its own spot and every later cell are empty.    *)
C18_BranchesIndependent ==
    (run.variant = "early" /\ run.board = "emptyPuzzle") =>
        /\ \A n \in 1..Len(output) : NoPieceInTwoCells(output[n])
        /\ phase = "running" =>
              LET a == arrangements[Top.placementsSoFar]
              IN  /\ Top.pc = "enter" => NoPieceInTwoCells(a)
                  /\ (Top.pc = "loop" /\ Pending(run.variant, Top) # {}) =>
                        \A p \in Positions(a) :
                            ~Before(p, Top.spot) => Cell(a, p) = Unplaced

(* C19: in the early solver (part_000), the run announced as 'Solving the  *)
(* first two rows only...' emits a solution only when all four cells of    *)
(* rows 0 and 1 hold a {piece, rotation} placement: nextOpentSpot treats   *)
(* each of the three row-1 cells as open until a piece is placed there.    *)
C19_TwoRowsFilledWhenEmitted ==
    (run.variant = "early" /\ run.board = "first two rows") =>
        /\ \A n \in 1..Len(output) :
              Len(output[n]) = 2 =>
                  \A p \in Positions(output[n]) : IsPlacement(Cell(output[n], p))
        /\ (phase = "running" /\ Top.pc = "enter") =>
              LET a == arrangements[Top.placementsSoFar]
              IN  (\E p \in Positions(a) : ~IsPlacement(Cell(a, p))) =>
                      nextOpentSpot(a) # NoSpot

(* C20: fitWithTwoSidesOrUndefined agrees with the list-returning          *)
(* fitsThatMatchTwoDots for every pair of dots and every piece of the      *)
(* 16-piece table: it returns undefined exactly when the list is empty,    *)
(* and otherwise the one rotation r in the list, with firstDot = piece[r]  *)
(* and secondDot = piece[(r+1) mod 3].                                     *)
C20_OneFitAgreesWithList ==
    result # NotCalled =>
        LET fit == result[1]
            list == result[2]
        IN  /\ fit = NoFit <=> list = <<>>
            /\ fit # NoFit =>
                  /\ list = <<fit>>
                  /\ fit \in 0..2
                  /\ argDots[1] = At(argPiece, fit)
                  /\ argDots[2] = At(argPiece, (fit + 1) % 3)

\* A piece with a repeated color, matched on that color: [b, w, w] fits
\* White, White in rotation 1 only.
C20_Witness ==
    /\ result # NotCalled
    /\ argPiece = <<b, w, w>>
    /\ argDots = <<w, w>>
    /\ result = <<1, <<1>> >>

====
